---- MODULE Spec2Model ----
(***************************************************************************)
(* cloudkitty.storage.sqlalchemy.SQLAlchemyStorage: the per-tenant write   *)
(* sessions (_check_session, _dispatch, _pre_commit, _commit,              *)
(* _post_commit) and the read-side queries over the rated_data_frames      *)
(* table.                                                                  *)
(*                                                                         *)
(* Two specifications share the state:                                     *)
(*   Spec      every storage call is one atomic action (serialized calls); *)
(*   SpecConc  two threads run the storage calls statement by statement.   *)
(***************************************************************************)
EXTENDS Integers, Sequences, FiniteSets, Bags, TLC

VARIABLES
    _session,        \* self._session: tenant_id -> <<>> (no key) or <<sqlalchemy session>>
    _has_data,       \* self._has_data: tenant_id -> TRUE, FALSE when the key is absent
    usage_start_dt,  \* self.usage_start_dt: tenant_id -> begin of the open period, NoTime when absent
    usage_end_dt,    \* self.usage_end_dt: tenant_id -> end of the open period, NoTime when absent
    table,           \* the committed rows of the frame_model table (a bag)
    appended,        \* history (Spec): tenant_id -> the bag of usage records dispatched since the tenant's last successful commit
    begun,           \* history: tenant_id -> sessions created and begun for the tenant since its last successful commit
    pc,              \* SpecConc: thread -> the statement it is at
    call             \* SpecConc: thread -> the call it runs: [op, tenant_id, data (frames left to append)]

vars == <<_session, _has_data, usage_start_dt, usage_end_dt, table,
          appended, begun, pc, call>>

-----------------------------------------------------------------------------
(* Bounds of the model *)

\* frames that may exist at once (dispatched and not yet committed, plus committed rows)
MaxFrames == 2
\* frames in the data of one dispatch call
MaxBatch == 1

Tenants == {"A", "B"}
Threads == {1, 2}

\* BaseStorage._period, the length of a collect period
Period == 1

\* Python's None for a string argument (every test of it in the code is a truth test)
None == ""
\* dict.get() finding no timestamp
NoTime == -1
\* SQL NULL as the text of a missing JSON member
Null == "<NULL>"
NO_DATA == "_NO_DATA_"

\* the timestamps at which a tenant's period may begin
Begins == {0, 1}
\* the boundaries of periods and of query windows
Times == Begins \cup {b + Period : b \in Begins}

-----------------------------------------------------------------------------
(* Values *)

PyStr(s) == [py |-> "str", val |-> s]
PyDict(d) == [py |-> "dict", val |-> d]

\* json.dumps of a frame's desc: a dict becomes a JSON object, a str a JSON string
json_dumps(v) ==
    [json |-> IF v.py = "dict" THEN "object" ELSE "string", val |-> v.val]

\* desc.cast(JSON)[key].astext: the member's text, NULL when desc is no object
\* or has no such member
JsonText(j, key) ==
    IF j.json = "object" /\ key \in DOMAIN j.val THEN j.val[key] ELSE Null

\* The usage records a dispatcher sends: <<service, frame>>, frame = [vol, rating, desc];
\* rating is <<>> when the frame has no 'rating' key, else <<price>>.
ComputeA ==
    <<"compute", [vol |-> [qty |-> 5, unit |-> "hour"], rating |-> <<1>>,
                  desc |-> PyDict([instance_id |-> "u1", name |-> "vm1"])]>>
ComputeB ==
    <<"compute", [vol |-> [qty |-> 3, unit |-> "hour"], rating |-> <<2>>,
                  desc |-> PyDict([instance_id |-> "u1", name |-> "vm1"])]>>
ImageA ==
    <<"image", [vol |-> [qty |-> 1, unit |-> "image"], rating |-> <<>>,
                desc |-> PyDict(("properties.instance_uuid" :> "u1"))]>>
BwInA ==
    <<"network.bw.in", [vol |-> [qty |-> 7, unit |-> "MB"], rating |-> <<0>>,
                        desc |-> PyDict([instance_id |-> "u1", display_name |-> "vm1"])]>>

UsageRecords == {ComputeA, ComputeB, ImageA, BwInA}

\* the data of one dispatch call, in the order the two loops of _dispatch visit it
RECURSIVE SeqsUpTo(_, _)
SeqsUpTo(S, n) ==
    IF n = 0 THEN {<<>>}
    ELSE LET shorter == SeqsUpTo(S, n - 1)
         IN shorter \cup {Append(s, x) : s \in shorter, x \in S}

Batches == SeqsUpTo(UsageRecords, MaxBatch)

ResTypes == {"compute", "image", "network.bw.in", "network.bw.out", NO_DATA}

-----------------------------------------------------------------------------
(* Bags *)

\* the sum of f over the set D
SetSum(D, f(_)) ==
    LET RECURSIVE S(_)
        S(E) == IF E = {} THEN 0
                ELSE LET x == CHOOSE y \in E : TRUE
                     IN f(x) + S(E \ {x})
    IN S(D)

\* SUM(f) over the rows of bag B
BagSum(B, f(_)) == SetSum(DOMAIN B, LAMBDA x : B[x] * f(x))

\* WHERE P over the rows of bag B
Where(B, P(_)) == [x \in {y \in DOMAIN B : P(y)} |-> B[x]]

Rows(B) == DOMAIN B

\* the elements of sequence s, as a bag
RECURSIVE BagOfSeq(_)
BagOfSeq(s) ==
    IF s = <<>> THEN EmptyBag ELSE SetToBag({Head(s)}) (+) BagOfSeq(Tail(s))
NumRows(B) == BagSum(B, LAMBDA x : 1)

-----------------------------------------------------------------------------
(* Sessions *)

\* db.get_session(): a new session, no transaction begun, nothing pending
get_session == [active |-> FALSE, new |-> EmptyBag]

\* session.begin()
begin(s) == [s EXCEPT !.active = TRUE]

Registered(S, tenant_id) == S[tenant_id] # <<>>
SessionOf(S, tenant_id) == S[tenant_id][1]

\* the frames pending in the tenant's registered session
Pending(S, tenant_id) ==
    IF Registered(S, tenant_id) THEN SessionOf(S, tenant_id).new ELSE EmptyBag

IsSentinel(row) == row.res_type = NO_DATA

\* the frames the model has seen: the committed rows, the usage records
\* dispatched since each tenant's last successful commit, the pending sentinels
FramesInSystem ==
    NumRows(table)
    + SetSum(Tenants, LAMBDA t : NumRows(appended[t])
                                 + NumRows(Where(Pending(_session, t), IsSentinel)))

-----------------------------------------------------------------------------
(* The write path, one operator per method *)

\* _check_session: create and begin a session when the tenant has none
_check_session(S, tenant_id) ==
    IF ~Registered(S, tenant_id)
    THEN [S EXCEPT ![tenant_id] = <<begin(get_session)>>]
    ELSE S

\* add_time_frame: frame_model(**kwargs) added to the tenant's registered session
add_time_frame(S, kwargs) ==
    [S EXCEPT ![kwargs.tenant_id] =
        <<[SessionOf(S, kwargs.tenant_id) EXCEPT !.new = @ (+) SetToBag({kwargs})]>>]

\* rate = frame.get('rating', {}).get('price'); if not rate: rate = Decimal(0)
RateOf(frame) ==
    IF frame.rating = <<>> THEN 0
    ELSE IF frame.rating[1] = 0 THEN 0 ELSE frame.rating[1]

\* the keyword arguments _append_time_frame passes to add_time_frame
FrameRow(res_type, frame, tenant_id) ==
    [begin |-> usage_start_dt[tenant_id],
     end |-> usage_end_dt[tenant_id],
     tenant_id |-> tenant_id,
     unit |-> frame.vol.unit,
     qty |-> frame.vol.qty,
     res_type |-> res_type,
     rate |-> RateOf(frame),
     desc |-> json_dumps(frame.desc)]

_append_time_frame(S, res_type, frame, tenant_id) ==
    add_time_frame(S, FrameRow(res_type, frame, tenant_id))

\* the frame _pre_commit writes for a period without data
empty_frame ==
    [vol |-> [qty |-> 0, unit |-> "None"], rating |-> <<0>>, desc |-> PyStr("")]

\* the loops of _dispatch over data, from registry S and flags H
RECURSIVE DispatchLoop(_, _, _, _)
DispatchLoop(S, H, data, tenant_id) ==
    IF data = <<>> THEN [S |-> S, H |-> H]
    ELSE DispatchLoop(
            _append_time_frame(S, Head(data)[1], Head(data)[2], tenant_id),
            [H EXCEPT ![tenant_id] = TRUE],
            Tail(data), tenant_id)

_dispatch(S, H, data, tenant_id) ==
    DispatchLoop(_check_session(S, tenant_id), H, data, tenant_id)

\* _pre_commit writing the sentinel whatever has_data says
_pre_commit_always(S, H, tenant_id) ==
    _append_time_frame(_check_session(S, tenant_id), NO_DATA, empty_frame, tenant_id)

\* _pre_commit: the registry after it
_pre_commit(S, H, tenant_id) ==
    LET S1 == _check_session(S, tenant_id)
    IN IF ~H[tenant_id]
       THEN _append_time_frame(S1, NO_DATA, empty_frame, tenant_id)
       ELSE S1

\* session.commit() can succeed only inside a begun transaction
CanCommit(S, tenant_id) ==
    Registered(S, tenant_id) /\ SessionOf(S, tenant_id).active

\* session.commit() succeeding: the pending frames become rows
Flushed(T, S, tenant_id) == T (+) SessionOf(S, tenant_id).new

\* session.commit() raising: the transaction is rolled back and ended, the
\* frames added in it leave the session
RolledBack(S, tenant_id) ==
    [S EXCEPT ![tenant_id] = <<[active |-> FALSE, new |-> EmptyBag]>>]

\* BaseStorage._post_commit: forget the tenant's flag and period
Base_post_commit(F, tenant_id, absent) == [F EXCEPT ![tenant_id] = absent]

\* _post_commit emptying the whole registry
_post_commit_all(S, tenant_id) == [t \in DOMAIN S |-> <<>>]

\* _post_commit: del self._session[tenant_id]
_post_commit(S, tenant_id) == [S EXCEPT ![tenant_id] = <<>>]

-----------------------------------------------------------------------------
(* History *)

\* sessions _check_session creates and begins from registry S
Creates(S, tenant_id) == IF Registered(S, tenant_id) THEN 0 ELSE 1

-----------------------------------------------------------------------------
(* Spec: serialized calls *)

Init ==
    /\ _session = [t \in Tenants |-> <<>>]
    /\ _has_data = [t \in Tenants |-> FALSE]
    /\ usage_start_dt = [t \in Tenants |-> NoTime]
    /\ usage_end_dt = [t \in Tenants |-> NoTime]
    /\ table = EmptyBag
    /\ appended = [t \in Tenants |-> EmptyBag]
    /\ begun = [t \in Tenants |-> 0]
    /\ pc = [th \in Threads |-> "idle"]
    /\ call = [th \in Threads |-> [op |-> "none", tenant_id |-> None, data |-> <<>>]]

\* BaseStorage._check_commit opening a period for a tenant that has none
OpenPeriod(tenant_id, b) ==
    /\ usage_start_dt[tenant_id] = NoTime
    /\ usage_start_dt' = [usage_start_dt EXCEPT ![tenant_id] = b]
    /\ usage_end_dt' = [usage_end_dt EXCEPT ![tenant_id] = b + Period]
    /\ UNCHANGED <<_session, _has_data, table, appended, begun, pc, call>>

\* BaseStorage.append handing one period's data to _dispatch
Dispatch(tenant_id, data) ==
    /\ usage_start_dt[tenant_id] # NoTime
    /\ FramesInSystem + Len(data) <= MaxFrames
    /\ LET r == _dispatch(_session, _has_data, data, tenant_id)
       IN /\ _session' = r.S
          /\ _has_data' = r.H
    /\ appended' = [appended EXCEPT ![tenant_id] = @ (+) BagOfSeq(data)]
    /\ begun' = [begun EXCEPT ![tenant_id] = @ + Creates(_session, tenant_id)]
    /\ UNCHANGED <<usage_start_dt, usage_end_dt, table, pc, call>>

\* BaseStorage.commit: _pre_commit, _commit, _post_commit, the database accepting the commit
CommitOk(tenant_id) ==
    /\ usage_start_dt[tenant_id] # NoTime
    /\ FramesInSystem + 1 <= MaxFrames \/ _has_data[tenant_id]
    /\ LET S1 == _pre_commit(_session, _has_data, tenant_id)
       IN /\ CanCommit(S1, tenant_id)
          /\ table' = Flushed(table, S1, tenant_id)
          /\ _session' = _post_commit(S1, tenant_id)
    /\ _has_data' = Base_post_commit(_has_data, tenant_id, FALSE)
    /\ usage_start_dt' = Base_post_commit(usage_start_dt, tenant_id, NoTime)
    /\ usage_end_dt' = Base_post_commit(usage_end_dt, tenant_id, NoTime)
    /\ appended' = [appended EXCEPT ![tenant_id] = EmptyBag]
    /\ begun' = [begun EXCEPT ![tenant_id] = 0]
    /\ UNCHANGED <<pc, call>>

\* BaseStorage.commit with session.commit() raising: _post_commit is not reached
CommitFail(tenant_id) ==
    /\ usage_start_dt[tenant_id] # NoTime
    /\ FramesInSystem + 1 <= MaxFrames \/ _has_data[tenant_id]
    /\ LET S1 == _pre_commit(_session, _has_data, tenant_id)
       IN _session' = IF CanCommit(S1, tenant_id) THEN RolledBack(S1, tenant_id) ELSE S1
    /\ begun' = [begun EXCEPT ![tenant_id] = @ + Creates(_session, tenant_id)]
    /\ UNCHANGED <<_has_data, usage_start_dt, usage_end_dt, table, appended, pc, call>>

Next ==
    \/ \E t \in Tenants, b \in Begins : OpenPeriod(t, b)
    \/ \E t \in Tenants, data \in Batches : Dispatch(t, data)
    \/ \E t \in Tenants : CommitOk(t)
    \/ \E t \in Tenants : CommitFail(t)

Spec == Init /\ [][Next]_vars

-----------------------------------------------------------------------------
(* The read path: each query over the rows T of the table *)

\* func.sum(rate) as an optional: <<>> is SQL NULL (no row), <<v>> the value
SqlSum(B) == IF Rows(B) = {} THEN <<>> ELSE <<BagSum(B, LAMBDA r : r.rate)>>

\* "if tenant_id: q = q.filter(tenant_id == ...)", the same for service
Matches(arg, value) == arg = None \/ value = arg

\* begin >= :begin AND end <= :end
InWindow(row, b, e) == row.begin >= b /\ row["end"] <= e

\* get_total without its tenant_id filter
get_total_any_tenant(T, b, e, tenant_id, service) ==
    SqlSum(Where(T, LAMBDA r : Matches(service, r.res_type) /\ InWindow(r, b, e)))

get_total(T, b, e, tenant_id, service) ==
    SqlSum(Where(T, LAMBDA r : /\ Matches(tenant_id, r.tenant_id)
                               /\ Matches(service, r.res_type)
                               /\ InWindow(r, b, e)))

\* the list of tenants, as the set of its elements (DISTINCT)
get_tenants(T, b, e) ==
    {r.tenant_id : r \in Rows(Where(T, LAMBDA r : InWindow(r, b, e)))}

\* the rows of get_time_frame without the exclusion of _NO_DATA_
TimeFrameRows_with_sentinels(T, b, e, filters) ==
    Where(T, LAMBDA r : /\ InWindow(r, b, e)
                        /\ Matches(filters.tenant_id, r.tenant_id)
                        /\ Matches(filters.res_type, r.res_type))

\* filters = [tenant_id, res_type], None for a filter not given (or falsy)
TimeFrameRows(T, b, e, filters) ==
    Where(T, LAMBDA r : /\ InWindow(r, b, e)
                        /\ Matches(filters.tenant_id, r.tenant_id)
                        /\ Matches(filters.res_type, r.res_type)
                        /\ (filters.res_type = None => r.res_type # NO_DATA))

\* raised: NoTimeFrame; frames: the entries handed to to_cloudkitty
get_time_frame(T, b, e, filters) ==
    LET q == TimeFrameRows(T, b, e, filters)
    IN IF NumRows(q) = 0
       THEN [raised |-> TRUE, frames |-> EmptyBag]
       ELSE [raised |-> FALSE, frames |-> q]

\* CASE res_type = 'image' THEN desc ->> 'properties.instance_uuid' ELSE desc ->> 'instance_id'
instance_id(r) ==
    IF r.res_type = "image" THEN JsonText(r.desc, "properties.instance_uuid")
    ELSE JsonText(r.desc, "instance_id")

\* CASE res_type = 'compute' THEN desc ->> 'name'
\*      res_type IN ('network.bw.in', 'network.bw.out') THEN desc ->> 'display_name'
\*      ELSE desc ->> 'instance_name'
instance_name(r) ==
    IF r.res_type = "compute" THEN JsonText(r.desc, "name")
    ELSE IF r.res_type \in {"network.bw.in", "network.bw.out"}
         THEN JsonText(r.desc, "display_name")
         ELSE JsonText(r.desc, "instance_name")

\* the rows both usage queries select
UsageRows(T, b, e, tenant_id, service) ==
    Where(T, LAMBDA r : /\ Matches(tenant_id, r.tenant_id)
                        /\ Matches(service, r.res_type)
                        /\ InWindow(r, b, e)
                        /\ r.res_type # NO_DATA)

\* the orders in which the database may return the rows of a result set
Orders(G) ==
    {o \in [1 .. Cardinality(G) -> G] :
        \A i, j \in 1 .. Cardinality(G) : i # j => o[i] # o[j]}

\* dict.setdefault
setdefault(d, k, v) == IF k \in DOMAIN d THEN d ELSE d @@ (k :> v)

Entry(r) == [qty |-> r.qty, unit |-> r.unit, rate |-> r.rate]

\* get_project_usage grouping by qty as well: one group per distinct frame
ProjectGroups_per_frame(T, b, e, tenant_id, service) ==
    LET q == UsageRows(T, b, e, tenant_id, service)
        key(r) == <<r.tenant_id, r.res_type, r.unit, r.qty>>
    IN {LET g == Where(q, LAMBDA r : key(r) = k)
        IN [tenant_id |-> k[1], res_type |-> k[2],
            instance_id |-> {instance_id(r) : r \in Rows(g)},
            instance_name |-> {instance_name(r) : r \in Rows(g)},
            unit |-> k[3],
            qty |-> BagSum(g, LAMBDA r : r.qty),
            rate |-> BagSum(g, LAMBDA r : r.rate)]
        : k \in {key(r) : r \in Rows(q)}}

\* GROUP BY tenant_id, res_type, unit of get_project_usage; array_agg(DISTINCT ..)
\* is the set of its elements
ProjectGroups(T, b, e, tenant_id, service) ==
    LET q == UsageRows(T, b, e, tenant_id, service)
        key(r) == <<r.tenant_id, r.res_type, r.unit>>
    IN {LET g == Where(q, LAMBDA r : key(r) = k)
        IN [tenant_id |-> k[1], res_type |-> k[2],
            instance_id |-> {instance_id(r) : r \in Rows(g)},
            instance_name |-> {instance_name(r) : r \in Rows(g)},
            unit |-> k[3],
            qty |-> BagSum(g, LAMBDA r : r.qty),
            rate |-> BagSum(g, LAMBDA r : r.rate)]
        : k \in {key(r) : r \in Rows(q)}}

\* the loop of get_project_usage over result, from row i on
RECURSIVE ProjectFold(_, _, _)
ProjectFold(usage, result, i) ==
    IF i > Len(result) THEN usage
    ELSE LET r == result[i]
             u1 == setdefault(usage, r.tenant_id, <<>>)
             t1 == setdefault(u1[r.tenant_id], "total", [rate |-> 0])
             t2 == [t1 EXCEPT !["total"].rate = @ + r.rate]
             t3 == setdefault(t2, r.res_type, <<>>)
             t4 == [t3 EXCEPT ![r.res_type] = Append(@, Entry(r))]
         IN ProjectFold([u1 EXCEPT ![r.tenant_id] = t4], result, i + 1)

\* get_project_usage when the database returns the groups in order `result`
get_project_usage(result) == ProjectFold(<<>>, result, 1)

\* GROUP BY tenant_id, res_type, unit, instance_id of get_instance_usage
InstanceGroups(T, b, e, tenant_id, service) ==
    LET q == UsageRows(T, b, e, tenant_id, service)
        key(r) == <<r.tenant_id, r.res_type, r.unit, instance_id(r)>>
    IN {LET g == Where(q, LAMBDA r : key(r) = k)
        IN [tenant_id |-> k[1], res_type |-> k[2], unit |-> k[3],
            instance_id |-> k[4],
            instance_name |-> {instance_name(r) : r \in Rows(g)},
            qty |-> BagSum(g, LAMBDA r : r.qty),
            rate |-> BagSum(g, LAMBDA r : r.rate)]
        : k \in {key(r) : r \in Rows(q)}}

\* the loop of get_instance_usage over result, from row i on
RECURSIVE InstanceFold(_, _, _)
InstanceFold(usage, result, i) ==
    IF i > Len(result) THEN usage
    ELSE LET r == result[i]
             u1 == setdefault(usage, r.tenant_id, <<>>)
             t1 == setdefault(u1[r.tenant_id], r.instance_id,
                              ("instance_name" :> r.instance_name) @@
                              ("instance_id" :> r.instance_id))
             i1 == setdefault(t1[r.instance_id], r.res_type, <<>>)
             i2 == [i1 EXCEPT ![r.res_type] = Append(@, Entry(r))]
         IN InstanceFold([u1 EXCEPT ![r.tenant_id] = [t1 EXCEPT ![r.instance_id] = i2]],
                         result, i + 1)

\* get_instance_usage when the database returns the groups in order `result`
get_instance_usage(result) == InstanceFold(<<>>, result, 1)

\* GROUP BY begin, end, tenant_id, unit of get_bandwidth_hourly_usage
BandwidthGroups(T, b, e, tenant_id, service) ==
    LET q == Where(T, LAMBDA r : /\ Matches(tenant_id, r.tenant_id)
                                 /\ Matches(service, r.res_type)
                                 /\ InWindow(r, b, e)
                                 /\ r.res_type \in {"network.bw.in", "network.bw.out"})
        key(r) == <<r.begin, r["end"], r.tenant_id, r.unit>>
    IN {LET g == Where(q, LAMBDA r : key(r) = k)
        IN [begin |-> k[1], end |-> k[2], tenant_id |-> k[3], unit |-> k[4],
            bw_in |-> BagSum(g, LAMBDA r : IF r.res_type = "network.bw.in" THEN r.qty ELSE 0),
            bw_out |-> BagSum(g, LAMBDA r : IF r.res_type = "network.bw.out" THEN r.qty ELSE 0)]
        : k \in {key(r) : r \in Rows(q)}}

\* the loop of get_bandwidth_hourly_usage over result, from row i on;
\* total is a function: 'unit' is a key only once a row was seen
RECURSIVE BandwidthFold(_, _, _)
BandwidthFold(total, result, i) ==
    IF i > Len(result) THEN total
    ELSE LET r == result[i]
             t1 == [total EXCEPT !["network.bw.in"] = @ + r.bw_in,
                                 !["network.bw.out"] = @ + r.bw_out]
             t2 == [k \in DOMAIN t1 \cup {"unit"} |->
                        IF k = "unit" THEN r.unit ELSE t1[k]]
         IN BandwidthFold(t2, result, i + 1)

\* get_bandwidth_hourly_usage when the database returns the groups in order `result`
get_bandwidth_hourly_usage(result) ==
    [data |-> result,
     total |-> BandwidthFold(("network.bw.in" :> 0) @@ ("network.bw.out" :> 0), result, 1)]

-----------------------------------------------------------------------------
(* Claims checked under Spec *)

\* the number of _NO_DATA_ rows of bag B
Sentinels(B) == NumRows(Where(B, IsSentinel))

NoSentinels(B) == Where(B, LAMBDA r : ~IsSentinel(r))

\* the price a usage record carries, 0 when it carries none
PriceOf(rec) == IF rec[2].rating = <<>> THEN 0 ELSE rec[2].rating[1]

\* C1: a successful commit of a tenant's session writes exactly one _NO_DATA_
\* row when no real frame was dispatched in that session and none otherwise,
\* for every session of the tenant.
C1_SentinelIffNoData ==
    [][\A t \in Tenants :
          CommitOk(t) =>
              LET written == table' (-) table
              IN /\ Sentinels(written) = IF appended[t] = EmptyBag THEN 1 ELSE 0
                 /\ NumRows(written) - Sentinels(written) = NumRows(appended[t])
                 /\ \A r \in Rows(written) : r.tenant_id = t]_vars

\* C1 witness: a tenant has committed a session without data (the sentinel of
\* period 0) and another session with data (a real row of period 1, no sentinel).
C1_Witness ==
    \E t \in Tenants :
        /\ \E r \in Rows(table) : r.tenant_id = t /\ IsSentinel(r) /\ r.begin = 0
        /\ \E r \in Rows(table) : r.tenant_id = t /\ ~IsSentinel(r) /\ r.begin = 1
        /\ ~\E r \in Rows(table) : r.tenant_id = t /\ IsSentinel(r) /\ r.begin = 1

\* NULL + x = x
SqlAdd(total, x) == IF total = <<>> THEN <<x>> ELSE <<total[1] + x>>

\* C2: get_total of a tenant over exactly a period's begin and end is the sum
\* of the prices dispatched for that tenant in the committed sessions of that
\* period (a record without price counting 0): it grows by the session's prices
\* when the tenant's session of that period commits, and no other step
\* (another tenant's commit, a dispatch not yet committed) changes it.
C2_TotalIsSumOfRates ==
    [][\A t \in Tenants, b \in Begins :
          get_total(table', b, b + Period, t, None) =
              IF CommitOk(t) /\ usage_start_dt[t] = b
              THEN SqlAdd(get_total(table, b, b + Period, t, None),
                          BagSum(appended[t], PriceOf))
              ELSE get_total(table, b, b + Period, t, None)]_vars

\* C2 witness: two frames with rates 1 and 2 are committed for a tenant in one
\* period and get_total over that period is 3.
C2_Witness ==
    \E t \in Tenants, b \in Begins :
        /\ \E r \in Rows(table) : r.tenant_id = t /\ r.begin = b /\ r.rate = 1
        /\ \E r \in Rows(table) : r.tenant_id = t /\ r.begin = b /\ r.rate = 2
        /\ get_total(table, b, b + Period, t, None) = <<3>>

\* the results a query may give, over the orders the database may return its groups in
ProjectResults(T, b, e, t, s) ==
    {get_project_usage(o) : o \in Orders(ProjectGroups(T, b, e, t, s))}
InstanceResults(T, b, e, t, s) ==
    {get_instance_usage(o) : o \in Orders(InstanceGroups(T, b, e, t, s))}
BandwidthResults(T, b, e, t, s) ==
    {get_bandwidth_hourly_usage(o) : o \in Orders(BandwidthGroups(T, b, e, t, s))}

\* C3 (as claimed): under every filter that does not ask for _NO_DATA_, each of
\* get_total, get_project_usage, get_instance_usage and
\* get_bandwidth_hourly_usage gives what it gives on the table without its
\* _NO_DATA_ rows.
C3_SentinelsInvisible ==
    \A b \in Times, e \in Times, t \in Tenants \cup {None},
       s \in (ResTypes \ {NO_DATA}) \cup {None} :
        /\ get_total(table, b, e, t, s) = get_total(NoSentinels(table), b, e, t, s)
        /\ ProjectResults(table, b, e, t, s) = ProjectResults(NoSentinels(table), b, e, t, s)
        /\ InstanceResults(table, b, e, t, s) = InstanceResults(NoSentinels(table), b, e, t, s)
        /\ BandwidthResults(table, b, e, t, s) = BandwidthResults(NoSentinels(table), b, e, t, s)

Filters == [tenant_id : Tenants \cup {None}, res_type : ResTypes \cup {None}]

\* the rows other than _NO_DATA_ that a window and the filters given match
NonSentinelMatches(b, e, f) ==
    {r \in Rows(table) :
        /\ r.begin >= b /\ r["end"] <= e
        /\ (f.tenant_id # None => r.tenant_id = f.tenant_id)
        /\ (f.res_type # None => r.res_type = f.res_type)
        /\ r.res_type # NO_DATA}

\* C4 (as claimed): get_time_frame raises NoTimeFrame whenever the window and
\* the filters match no row other than _NO_DATA_, and never returns an empty
\* sequence.
C4_RaisesOnNoRealRows ==
    \A b \in Times, e \in Times, f \in Filters :
        LET got == get_time_frame(table, b, e, f)
        IN /\ NonSentinelMatches(b, e, f) = {} => got.raised
           /\ ~got.raised => got.frames # EmptyBag

\* C4 (amended): the same for every filter whose res_type is not _NO_DATA_;
\* with res_type = _NO_DATA_ it returns the matching _NO_DATA_ rows and raises
\* when there is none.
C4_RaisesUnlessSentinelAsked ==
    \A b \in Times, e \in Times, f \in Filters :
        LET got == get_time_frame(table, b, e, f)
            asked == {r \in Rows(table) :
                        /\ r.begin >= b /\ r["end"] <= e
                        /\ (f.tenant_id # None => r.tenant_id = f.tenant_id)
                        /\ r.res_type = NO_DATA}
        IN /\ f.res_type # NO_DATA => (NonSentinelMatches(b, e, f) = {} => got.raised)
           /\ f.res_type = NO_DATA => (asked = {} <=> got.raised)
           /\ ~got.raised => got.frames # EmptyBag

\* C4 witness: a tenant's only row in a window is its sentinel, and
\* get_time_frame for that tenant without a res_type filter raises.
C4_Witness ==
    \E t \in Tenants, b \in Begins :
        /\ \E r \in Rows(table) : r.tenant_id = t /\ r.begin = b /\ IsSentinel(r)
        /\ ~\E r \in Rows(table) : r.tenant_id = t /\ r.begin = b /\ ~IsSentinel(r)
        /\ get_time_frame(table, b, b + Period, [tenant_id |-> t, res_type |-> None]).raised

\* C6 (as claimed): once commit has been called for a tenant, whether the
\* database commit succeeded or raised, the registry holds no session for it.
C6_ClosedEvenOnFailure ==
    [][\A t \in Tenants :
          (CommitOk(t) \/ CommitFail(t)) => ~Registered(_session', t)]_vars

\* C8 (as claimed): get_tenants gives exactly the tenants with a row other
\* than _NO_DATA_ in the window.
C8_TenantsWithRealFrames ==
    \A b \in Times, e \in Times :
        get_tenants(table, b, e) =
            {t \in Tenants :
                \E r \in Rows(table) :
                    r.tenant_id = t /\ r.begin >= b /\ r["end"] <= e /\ ~IsSentinel(r)}

\* the rows of tenant t in the window that are frames of usage record rec
RowsOf(rec, t, b, e) ==
    {r \in Rows(table) :
        /\ r.tenant_id = t /\ r.begin >= b /\ r["end"] <= e
        /\ r.res_type = rec[1] /\ r.qty = rec[2].vol.qty /\ r.unit = rec[2].vol.unit
        /\ r.desc = json_dumps(rec[2].desc)}

\* C9 (as claimed): when a tenant has an image frame with
\* properties.instance_uuid = u1 and a compute frame with instance_id = u1 and
\* name = vm1 in the window, get_instance_usage groups both under instance u1
\* and that instance's instance_name is vm1, in whatever order the database
\* returns the grouped rows.
C9_InstanceNameAnyOrder ==
    \A t \in Tenants, b \in Times, e \in Times :
        (RowsOf(ImageA, t, b, e) # {} /\ RowsOf(ComputeA, t, b, e) # {}) =>
            \A o \in Orders(InstanceGroups(table, b, e, None, None)) :
                LET usage == get_instance_usage(o)
                IN /\ t \in DOMAIN usage
                   /\ "u1" \in DOMAIN usage[t]
                   /\ {"image", "compute"} \subseteq DOMAIN usage[t]["u1"]
                   /\ usage[t]["u1"]["instance_id"] = "u1"
                   /\ usage[t]["u1"]["instance_name"] = {"vm1"}

\* the rows of tenant t in the window that are not _NO_DATA_
RealRows(t, b, e) ==
    Where(table, LAMBDA r : /\ r.tenant_id = t /\ r.begin >= b /\ r["end"] <= e
                            /\ ~IsSentinel(r))

SeqSum(list, f(_)) == SetSum(DOMAIN list, LAMBDA i : f(list[i]))

\* C10 (as claimed): a tenant whose compute frames in the window are the two
\* frames qty=5, rate=1 and qty=3, rate=2 of one unit gets a two-entry compute
\* list holding those two frames, and a total.rate that is the sum of its
\* entries' rates.
C10_OneEntryPerFrame ==
    \A t \in Tenants, b \in Times, e \in Times :
        (/\ RowsOf(ComputeA, t, b, e) # {} /\ RowsOf(ComputeB, t, b, e) # {}
         /\ NumRows(Where(RealRows(t, b, e), LAMBDA r : r.res_type = "compute")) = 2) =>
            \A o \in Orders(ProjectGroups(table, b, e, None, None)) :
                LET usage == get_project_usage(o)
                    E1 == [qty |-> 5, unit |-> "hour", rate |-> 1]
                    E2 == [qty |-> 3, unit |-> "hour", rate |-> 2]
                IN /\ usage[t]["compute"] \in {<<E1, E2>>, <<E2, E1>>}
                   /\ usage[t]["total"].rate =
                        SetSum(DOMAIN usage[t] \ {"total"},
                               LAMBDA k : SeqSum(usage[t][k], LAMBDA x : x.rate))

\* C10 (amended): get_project_usage lists one {qty, unit, rate} entry per
\* res_type and unit of the tenant, holding the summed qty and the summed rate
\* of the frames of that res_type and unit, and the tenant's total.rate is the
\* sum of the entries' rates.
C10_OneEntryPerUnit ==
    \A b \in Times, e \in Times :
        \A o \in Orders(ProjectGroups(table, b, e, None, None)) :
            LET usage == get_project_usage(o)
            IN /\ DOMAIN usage = {t \in Tenants : Rows(RealRows(t, b, e)) # {}}
               /\ \A t \in DOMAIN usage :
                    LET real == RealRows(t, b, e)
                        of(k, u) == Where(real, LAMBDA r : r.res_type = k /\ r.unit = u)
                    IN /\ DOMAIN usage[t] = {"total"} \cup {r.res_type : r \in Rows(real)}
                       /\ usage[t]["total"].rate = BagSum(real, LAMBDA r : r.rate)
                       /\ usage[t]["total"].rate =
                            SetSum(DOMAIN usage[t] \ {"total"},
                                   LAMBDA k : SeqSum(usage[t][k], LAMBDA x : x.rate))
                       /\ \A k \in DOMAIN usage[t] \ {"total"} :
                            LET list == usage[t][k]
                            IN /\ Len(list) =
                                    Cardinality({r.unit : r \in Rows(Where(real, LAMBDA r : r.res_type = k))})
                               /\ \A i \in DOMAIN list :
                                    /\ list[i].qty = BagSum(of(k, list[i].unit), LAMBDA r : r.qty)
                                    /\ list[i].rate = BagSum(of(k, list[i].unit), LAMBDA r : r.rate)
                               /\ \A i, j \in DOMAIN list : i # j => list[i].unit # list[j].unit

\* C10 witness: a tenant's two compute frames qty=5, rate=1 and qty=3, rate=2
\* are committed in one period and get_project_usage lists them as the single
\* entry qty=8, rate=3, with total.rate = 3.
C10_Witness ==
    \E t \in Tenants, b \in Begins :
        /\ RowsOf(ComputeA, t, b, b + Period) # {}
        /\ RowsOf(ComputeB, t, b, b + Period) # {}
        /\ \A o \in Orders(ProjectGroups(table, b, b + Period, t, None)) :
            /\ get_project_usage(o)[t]["compute"] = <<[qty |-> 8, unit |-> "hour", rate |-> 3]>>
            /\ get_project_usage(o)[t]["total"].rate = 3

-----------------------------------------------------------------------------
(* SpecConc: two threads run dispatch and commit one statement at a time *)

\* the inputs of the threads: one kind of usage record, one period
ConcBatches == SeqsUpTo({ComputeA}, MaxBatch)
ConcBegins == {0}

NoCall == [op |-> "none", tenant_id |-> None, data |-> <<>>]

\* the frames the threads hold: the committed rows, the frames pending in the
\* registered sessions, the frames of calls under way that are not appended yet
ConcFrames ==
    NumRows(table)
    + SetSum(Tenants, LAMBDA t : NumRows(Pending(_session, t)))
    + SetSum(Threads, LAMBDA th : Len(call[th].data))

\* a call returns, or an exception leaves it
Return(th) ==
    /\ pc' = [pc EXCEPT ![th] = "idle"]
    /\ call' = [call EXCEPT ![th] = NoCall]

\* the call c of thread th goes on at the statement after _check_session: the
\* loops of _dispatch (which return at once over no data), or line 52 of _pre_commit
AfterCheck(th, c) ==
    IF c.op = "dispatch" /\ c.data = <<>>
    THEN Return(th)
    ELSE /\ pc' = [pc EXCEPT ![th] = IF c.op = "dispatch" THEN "append" ELSE "pre"]
         /\ call' = [call EXCEPT ![th] = c]

\* _check_session: session = self._session.get(tenant_id); if not session,
\* the first statement of the call c that thread th enters
CheckStep(th, c) ==
    IF Registered(_session, c.tenant_id)
    THEN AfterCheck(th, c)
    ELSE /\ pc' = [pc EXCEPT ![th] = "create"]
         /\ call' = [call EXCEPT ![th] = c]

\* a thread enters _dispatch(data, tenant_id)
CallDispatch(th, tenant_id, data) ==
    /\ pc[th] = "idle"
    /\ usage_start_dt[tenant_id] # NoTime
    /\ ConcFrames + Len(data) <= MaxFrames
    /\ CheckStep(th, [op |-> "dispatch", tenant_id |-> tenant_id, data |-> data])
    /\ UNCHANGED <<_session, _has_data, usage_start_dt, usage_end_dt, table, appended, begun>>

\* a thread enters BaseStorage.commit(tenant_id), which starts with _pre_commit
CallCommit(th, tenant_id) ==
    /\ pc[th] = "idle"
    /\ usage_start_dt[tenant_id] # NoTime
    /\ ConcFrames + 1 <= MaxFrames \/ _has_data[tenant_id]
    /\ CheckStep(th, [op |-> "commit", tenant_id |-> tenant_id, data |-> <<>>])
    /\ UNCHANGED <<_session, _has_data, usage_start_dt, usage_end_dt, table, appended, begun>>

\* _check_session: self._session[tenant_id] = db.get_session()
CreateStep(th) ==
    /\ pc[th] = "create"
    /\ _session' = [_session EXCEPT ![call[th].tenant_id] = <<get_session>>]
    /\ pc' = [pc EXCEPT ![th] = "begin"]
    /\ UNCHANGED <<_has_data, usage_start_dt, usage_end_dt, table, appended, begun, call>>

\* _check_session: self._session[tenant_id].begin(); KeyError when the entry is
\* gone, InvalidRequestError when that session has a transaction already
BeginStep(th) ==
    LET t == call[th].tenant_id
    IN /\ pc[th] = "begin"
       /\ IF Registered(_session, t) /\ ~SessionOf(_session, t).active
          THEN /\ _session' = [_session EXCEPT ![t] = <<begin(SessionOf(_session, t))>>]
               /\ begun' = [begun EXCEPT ![t] = @ + 1]
               /\ AfterCheck(th, call[th])
          ELSE /\ Return(th)
               /\ UNCHANGED <<_session, begun>>
       /\ UNCHANGED <<_has_data, usage_start_dt, usage_end_dt, table, appended>>

\* _dispatch: _append_time_frame of the next frame of the loops; KeyError when
\* the tenant has no registered session
AppendStep(th) ==
    LET t == call[th].tenant_id
        data == call[th].data
    IN /\ pc[th] = "append"
       /\ IF Registered(_session, t)
          THEN /\ _session' = _append_time_frame(_session, Head(data)[1], Head(data)[2], t)
               /\ call' = [call EXCEPT ![th].data = Tail(data)]
               /\ pc' = [pc EXCEPT ![th] = "mark"]
          ELSE /\ Return(th)
               /\ UNCHANGED _session
       /\ UNCHANGED <<_has_data, usage_start_dt, usage_end_dt, table, appended, begun>>

\* _dispatch: self._has_data[tenant_id] = True, then the next frame or the return
MarkStep(th) ==
    /\ pc[th] = "mark"
    /\ _has_data' = [_has_data EXCEPT ![call[th].tenant_id] = TRUE]
    /\ AfterCheck(th, call[th])
    /\ UNCHANGED <<_session, usage_start_dt, usage_end_dt, table, appended, begun>>

\* _pre_commit: if not self._has_data.get(tenant_id)
PreStep(th) ==
    /\ pc[th] = "pre"
    /\ pc' = [pc EXCEPT ![th] = IF _has_data[call[th].tenant_id] THEN "commit" ELSE "sentinel"]
    /\ UNCHANGED <<_session, _has_data, usage_start_dt, usage_end_dt, table, appended, begun, call>>

\* _pre_commit: self._append_time_frame('_NO_DATA_', empty_frame, tenant_id)
SentinelStep(th) ==
    LET t == call[th].tenant_id
    IN /\ pc[th] = "sentinel"
       /\ IF Registered(_session, t)
          THEN /\ _session' = _append_time_frame(_session, NO_DATA, empty_frame, t)
               /\ pc' = [pc EXCEPT ![th] = "commit"]
               /\ UNCHANGED call
          ELSE /\ Return(th)
               /\ UNCHANGED _session
       /\ UNCHANGED <<_has_data, usage_start_dt, usage_end_dt, table, appended, begun>>

\* _commit: self._session[tenant_id].commit() succeeding; the session is left
\* without transaction and without pending frames
CommitStepOk(th) ==
    LET t == call[th].tenant_id
    IN /\ pc[th] = "commit"
       /\ CanCommit(_session, t)
       /\ table' = Flushed(table, _session, t)
       /\ _session' = [_session EXCEPT ![t] = <<get_session>>]
       /\ begun' = [begun EXCEPT ![t] = 0]
       /\ pc' = [pc EXCEPT ![th] = "post"]
       /\ UNCHANGED <<_has_data, usage_start_dt, usage_end_dt, appended, call>>

\* _commit: self._session[tenant_id].commit() raising: KeyError when the entry
\* is gone, InvalidRequestError when no transaction is begun (the database
\* itself refuses no commit here; Spec covers that)
CommitStepFail(th) ==
    /\ pc[th] = "commit"
    /\ ~CanCommit(_session, call[th].tenant_id)
    /\ Return(th)
    /\ UNCHANGED <<_session, _has_data, usage_start_dt, usage_end_dt, table, appended, begun>>

\* _post_commit: super()._post_commit(tenant_id)
PostStep(th) ==
    LET t == call[th].tenant_id
    IN /\ pc[th] = "post"
       /\ _has_data' = Base_post_commit(_has_data, t, FALSE)
       /\ usage_start_dt' = Base_post_commit(usage_start_dt, t, NoTime)
       /\ usage_end_dt' = Base_post_commit(usage_end_dt, t, NoTime)
       /\ pc' = [pc EXCEPT ![th] = "del"]
       /\ UNCHANGED <<_session, table, appended, begun, call>>

\* _post_commit: del self._session[tenant_id] (KeyError when the entry is gone)
DelStep(th) ==
    LET t == call[th].tenant_id
    IN /\ pc[th] = "del"
       /\ _session' = IF Registered(_session, t) THEN _post_commit(_session, t) ELSE _session
       /\ Return(th)
       /\ UNCHANGED <<_has_data, usage_start_dt, usage_end_dt, table, appended, begun>>

\* the tenants a thread works for: thread 1 for one tenant, thread 2 for any
\* (the other assignments are these with the tenants or the threads renamed)
TenantsOf(th) == IF th = 1 THEN {"A"} ELSE Tenants

ThreadStep(th) ==
    \/ \E t \in TenantsOf(th), data \in ConcBatches : CallDispatch(th, t, data)
    \/ \E t \in TenantsOf(th) : CallCommit(th, t)
    \/ CreateStep(th)
    \/ BeginStep(th)
    \/ AppendStep(th)
    \/ MarkStep(th)
    \/ PreStep(th)
    \/ SentinelStep(th)
    \/ CommitStepOk(th)
    \/ CommitStepFail(th)
    \/ PostStep(th)
    \/ DelStep(th)

NextConc ==
    \/ \E t \in Tenants, b \in ConcBegins : OpenPeriod(t, b)
    \/ \E th \in Threads : ThreadStep(th)

SpecConc == Init /\ [][NextConc]_vars

-----------------------------------------------------------------------------
(* Claims checked under SpecConc *)

\* C5 (as claimed): under every interleaving of the threads, _check_session
\* creates and begins at most one session for a tenant between two commits of
\* that tenant.
C5_OneSessionPerTenant ==
    \A t \in Tenants : begun[t] <= 1

\* what a tenant owns: its registry entry (with the frames pending in it), its
\* has_data flag, its period and its committed rows
TenantState(t) ==
    <<_session[t], _has_data[t], usage_start_dt[t], usage_end_dt[t],
      Where(table, LAMBDA r : r.tenant_id = t)>>

\* thread th takes a step in the transition
Acts(th) == pc'[th] # pc[th] \/ call'[th] # call[th]

\* the tenant that step is for
ActingTenant(th) ==
    IF pc[th] = "idle" THEN call'[th].tenant_id ELSE call[th].tenant_id

\* C7: every step a thread takes for one tenant (in dispatch, _pre_commit,
\* _commit or _post_commit), and the opening of one tenant's period, leaves
\* every other tenant's registry entry, has_data flag, period, pending frames
\* and committed rows as they were, in every interleaving.
C7_OtherTenantsUntouched ==
    [][/\ \A th \in Threads :
            Acts(th) =>
                \A o \in Tenants \ {ActingTenant(th)} : TenantState(o)' = TenantState(o)
       /\ \A t \in Tenants :
            usage_start_dt'[t] # usage_start_dt[t] /\ usage_start_dt[t] = NoTime =>
                \A o \in Tenants \ {t} : TenantState(o)' = TenantState(o)]_vars

\* C7 witness: thread 1 has committed rows of tenant A and is inside
\* _post_commit while thread 2 is inside a call for tenant B, whose session
\* holds a pending frame.
C7_Witness ==
    /\ pc[1] \in {"post", "del"} /\ call[1].tenant_id = "A"
    /\ \E r \in Rows(table) : r.tenant_id = "A"
    /\ pc[2] # "idle" /\ call[2].tenant_id = "B"
    /\ Pending(_session, "B") # EmptyBag

====
